---- MODULE Spec2Model ----
(***************************************************************************)
(* Model of aliyun-cdt-check: the check() job of aliyun_cdt_check.py and   *)
(* the send_daily_notification() job of dailyjob.py.                       *)
(*                                                                         *)
(* Traffic is counted in MiB (2^20 bytes) instead of bytes so that the     *)
(* products stay inside TLC's integers; 1 GB = 1024 MiB.  A usage          *)
(* percentage is kept in hundredths of a percent (95.00% = 9500).          *)
(***************************************************************************)
EXTENDS Integers, Sequences, FiniteSets, TLC

\* ---------------------------------------------------------------- bounds
\* MaxAccounts bounds the account list; MaxIterations bounds the loop
\* iterations of all runs together (a run starts only if it fits).
MaxAccounts == 2
MaxIterations == 2

\* ---------------------------------------------------- program constants
Threshold == 95
MiBPerGB == 1024
Cents == 100

\* ------------------------------------------------------------ input sets
\* Account records of config.json.  hasMaxTraffic/hasName say whether the key
\* is present; enableNotification/onlyNotifyOnToggle are "absent", "true" or
\* "false".
Account(hasQuota, quota, hasName, en, only) ==
    [hasMaxTraffic |-> hasQuota, maxTraffic |-> quota, hasName |-> hasName,
     enableNotification |-> en, onlyNotifyOnToggle |-> only]

AccountConfigs ==
    { Account(TRUE, 20, TRUE, "absent", "absent"),
      Account(TRUE, 0, TRUE, "true", "false"),
      Account(FALSE, 0, TRUE, "absent", "true"),
      Account(TRUE, 20, FALSE, "false", "absent") }

RECURSIVE SeqsUpTo(_, _)
SeqsUpTo(S, n) ==
    IF n = 0 THEN {<<>>}
    ELSE LET shorter == SeqsUpTo(S, n - 1)
         IN  shorter \cup {Append(s, x) : s \in shorter, x \in S}

AccountLists == {s \in SeqsUpTo(AccountConfigs, MaxAccounts) : Len(s) >= 1}

\* The notification channels in the order send_notification dispatches them.
Channels == <<"email", "bark", "tg", "webhook", "qywx">>

\* Notification section of config.json: the channels whose enable flag is
\* truthy, and the enabled channels whose credential keys are missing.
NotificationConfigs ==
    { [enabled |-> {}, missing |-> {}],
      [enabled |-> {"email", "bark", "tg"}, missing |-> {}],
      [enabled |-> {"email", "tg", "qywx"}, missing |-> {"email"}],
      [enabled |-> {"email", "bark", "tg"}, missing |-> {"bark"}] }

\* Bodies of ListCdtInternetTraffic: the TrafficDetails line items, each the
\* item's Traffic in MiB, or -1 for an item without a Traffic key.
NoTraffic == -1
TrafficResponses ==
    { <<>>, <<NoTraffic, 19454>>, <<9727, 9728>>, <<19661>> }

\* ------------------------------------------------------- usage evaluator
RECURSIVE SumTraffic(_)
SumTraffic(items) ==
    IF items = <<>> THEN 0
    ELSE (IF Head(items) = NoTraffic THEN 0 ELSE Head(items)) + SumTraffic(Tail(items))

\* What the traffic query can do: answer with one of the bodies, or raise.
TrafficQueryOutcomes ==
    {[ok |-> TRUE, items |-> t] : t \in TrafficResponses} \cup {[ok |-> FALSE, items |-> <<>>]}

\* get_traffic: the summed traffic, or 0 when the query raised.
get_traffic_unknown_is_full(response) ==
    IF ~response.ok THEN 20 * MiBPerGB ELSE SumTraffic(response.items)
get_traffic(response) ==
    IF ~response.ok THEN 0 ELSE SumTraffic(response.items)

\* round(n / d) to the nearest integer, ties to even (Python's round).
RoundHalfEven(n, d) ==
    LET q == n \div d
        r == n % d
    IN  IF 2 * r < d THEN q
        ELSE IF 2 * r > d THEN q + 1
        ELSE IF q % 2 = 0 THEN q ELSE q + 1

\* round((traffic / maxTraffic) * 100, 2), in hundredths of a percent, computed
\* on the exact quotient (the float error of the source is far below the
\* distance of the modelled inputs from a rounding tie).
usage_percentage(traffic, maxTraffic) ==
    RoundHalfEven(traffic * 100 * Cents, MiBPerGB * maxTraffic)

OverThreshold(usage) == usage >= Threshold * Cents

\* ---------------------------------------------------- notification fanout
\* The message template send_notification picks for a log record.
Template(log) == IF "error" \in DOMAIN log THEN "error" ELSE "toggle"

\* One channel's own function (send_email_notification .. send_qywx_notification):
\* every exception is caught inside it.  The e-mail sender reads its keys inside
\* its try block and returns str(e); the others return a boolean.
ChannelOutcome(ch, cfg, ok) ==
    IF ch = "email"
    THEN IF ch \notin cfg.missing /\ ch \in ok THEN "True" ELSE "str"
    ELSE IF ch \in ok THEN "True" ELSE "False"

\* The dispatch part of send_notification, channel by channel.  For every
\* channel but e-mail the credential keys are read by the dispatcher itself
\* (notification_config['barkUrl'], ...), outside the channel's try block: a
\* missing key raises KeyError out of send_notification.
RECURSIVE Dispatch(_, _, _, _)
Dispatch(chs, cfg, ok, acc) ==
    IF chs = <<>> THEN acc
    ELSE LET ch == Head(chs)
         IN  IF ch \notin cfg.enabled THEN Dispatch(Tail(chs), cfg, ok, acc)
             ELSE IF ch # "email" /\ ch \in cfg.missing
                  THEN [acc EXCEPT !.raised = TRUE]
                  ELSE Dispatch(Tail(chs), cfg, ok,
                           [acc EXCEPT !.attempted = Append(@, ch),
                                       !.results = Append(@, ChannelOutcome(ch, cfg, ok))])

\* The value send_notification returns from the per-channel results.
AggregateAny(results) ==
    IF \E k \in 1..Len(results) : results[k] = "True" \/ Len(results) = 0
    THEN "True" ELSE "failed"
Aggregate(results) ==
    IF \E k \in 1..Len(results) : results[k] # "True" THEN "failed" ELSE "True"

\* send_notification(log, notification_config) with the channels in ok
\* succeeding: the channels attempted in order, their outcomes, and the
\* return value ("raise" when an exception left the function; on failure the
\* returned string, "failed" here, embeds the results map: embedded).
send_notification(log, cfg, ok) ==
    LET d == Dispatch(Channels, cfg, ok, [attempted |-> <<>>, results |-> <<>>, raised |-> FALSE])
    IN  [template  |-> Template(log),
         enabled   |-> cfg.enabled,
         attempted |-> d.attempted,
         results   |-> d.results,
         ret       |-> IF d.raised THEN "raise" ELSE Aggregate(d.results),
         embedded  |-> IF ~d.raised /\ Aggregate(d.results) # "True"
                       THEN d.results ELSE <<>>]

NoFanout ==
    [template |-> "none", enabled |-> {}, attempted |-> <<>>, results |-> <<>>,
     ret |-> "none", embedded |-> <<>>]

\* ------------------------------------------------------------------ state
VARIABLES
    accounts,             \* config['Accounts']
    notification_config,  \* config['Notification']
    rule,                 \* remote: the 0.0.0.0/0 ingress rule exists, per account
    job,                  \* the job running or last run: "none", "check", "digest"
    pc,                   \* "idle", "check", "try", "digest", "digest_try", "crashed"
    idx,                  \* position of the for loop in accounts
    run,                  \* number of job runs started
    logs,                 \* check(): the logs list
    file,                 \* data.json: <<>> when never written, else <<logs>>
    writes,               \* number of write_log calls of the current run
    calls,                \* per account, the remote calls and notifications of the current run
    last,                 \* per account, summary of its latest reconcile in check()
    fanout,               \* the send_notification call of the last step
    digest                \* per account, the digest message composed in the current digest run

vars == <<accounts, notification_config, rule, job, pc, idx, run, logs, file, writes,
          calls, last, fanout, digest>>

N == Len(accounts)

NoDigest == [rendered |-> FALSE, usage |-> 0, filled |-> 0, empty |-> 0]

NoSummary ==
    [run |-> 0, usage |-> 0, observed |-> FALSE, action |-> "None", after |-> FALSE,
     clean |-> FALSE, repeat |-> FALSE, prevClean |-> FALSE, prevAction |-> "None"]

Init ==
    /\ accounts \in AccountLists
    /\ notification_config \in NotificationConfigs
    /\ rule \in [1..Len(accounts) -> BOOLEAN]
    /\ job = "none"
    /\ pc = "idle"
    /\ idx = 0
    /\ run = 0
    /\ logs = <<>>
    /\ file = <<>>
    /\ writes = 0
    /\ calls = [a \in 1..Len(accounts) |-> <<>>]
    /\ last = [a \in 1..Len(accounts) |-> NoSummary]
    /\ fanout = NoFanout
    /\ digest = [a \in 1..Len(accounts) |-> NoDigest]

Call(op, res) == [op |-> op, res |-> res]
Notify(f) == [op |-> "notify_" \o f.template, res |-> f.ret]

\* ------------------------------------------------------------- check()
\* check(), lines 372-375: the configuration is loaded and logs starts empty.
StartCheck ==
    /\ pc \in {"idle", "crashed"}
    /\ (run + 1) * N <= MaxIterations
    /\ job' = "check"
    /\ pc' = "check"
    /\ idx' = 1
    /\ run' = run + 1
    /\ logs' = <<>>
    /\ writes' = 0
    /\ calls' = [a \in 1..N |-> <<>>]
    /\ fanout' = NoFanout
    /\ digest' = [a \in 1..N |-> NoDigest]
    /\ UNCHANGED <<accounts, notification_config, rule, file, last>>

\* validate_credentials_and_instance as called from check(): DescribeInstances
\* lists the instance ("ok"), does not list it ("absent") or raises.  A failure
\* sends the error record through send_notification from inside the except
\* block, and an exception of send_notification leaves check().
ValidationErrorLog(a) == [server |-> a, instanceId |-> a, error |-> "validation"]

\* The value validate_credentials_and_instance returns for what
\* DescribeInstances did.
validate_no_instance_check(outcome) == outcome # "raises"
validate_credentials_and_instance(outcome) == outcome = "ok"

CheckValidate ==
    /\ pc = "check"
    /\ idx <= N
    /\ \E outcome \in {"ok", "absent", "raises"} :
         IF validate_credentials_and_instance(outcome)
         THEN /\ calls' = [calls EXCEPT ![idx] = Append(@, Call("DescribeInstances", outcome))]
              /\ pc' = "try"
              /\ fanout' = NoFanout
              /\ UNCHANGED idx
         ELSE \E ok \in SUBSET notification_config.enabled :
                LET f == send_notification(ValidationErrorLog(idx), notification_config, ok)
                IN  /\ calls' = [calls EXCEPT ![idx] =
                                    @ \o <<Call("DescribeInstances", outcome), Notify(f)>>]
                    /\ fanout' = f
                    /\ IF f.ret = "raise"
                       THEN pc' = "crashed" /\ UNCHANGED idx
                       ELSE pc' = "check" /\ idx' = idx + 1
    /\ UNCHANGED <<accounts, notification_config, job, rule, run, logs, file, writes, last, digest>>

\* is_security_group_rule_enabled: the rule as the query reports it, False when
\* the query raised (a security_group_id of None makes the query raise).
is_security_group_rule_enabled(sgOk, queryOk, exists) ==
    IF sgOk /\ queryOk THEN exists ELSE FALSE

\* The branch of check() lines 409-428 as the action it takes.
reconcileFlipped(usage, is_enabled) ==
    IF OverThreshold(usage)
    THEN IF is_enabled THEN "Disable" ELSE "Enable"
    ELSE IF ~is_enabled THEN "Enable" ELSE "None"
reconcileAlways(usage, is_enabled) ==
    IF OverThreshold(usage) THEN "Disable"
    ELSE IF ~is_enabled THEN "Enable" ELSE "None"
reconcile(usage, is_enabled) ==
    IF OverThreshold(usage)
    THEN IF is_enabled THEN "Disable" ELSE "None"
    ELSE IF ~is_enabled THEN "Enable" ELSE "None"

MutatingOp(action) ==
    IF action = "Disable" THEN "RevokeSecurityGroup" ELSE "AuthorizeSecurityGroup"

\* log['安全组状态'] of lines 413, 417, 423, 427.
StatusText(usage, is_enabled) ==
    IF OverThreshold(usage)
    THEN IF is_enabled THEN "disabled" ELSE "already_disabled"
    ELSE IF ~is_enabled THEN "restored" ELSE "already_enabled"

\* log['通知发送'] of lines 415 and 425.
NotifiedText(ret) == IF ret = "True" THEN "success" ELSE "failed"

ResultLog(a, usage, is_enabled, notified) ==
    [instanceId |-> a, server |-> a, usage |-> usage,
     over95 |-> IF OverThreshold(usage) THEN "yes" ELSE "no",
     status |-> StatusText(usage, is_enabled), notified |-> notified]

\* Lines 411-414 and 421-424: the mutating call, then the toggle notification.
MutateTwiceAndNotify(made, action, mutOk, f) ==
    made \o <<Call(MutatingOp(action), IF mutOk THEN "ok" ELSE "raised"),
              Call(MutatingOp(action), IF mutOk THEN "ok" ELSE "raised"), Notify(f)>>
MutateAndNotify(made, action, mutOk, f) ==
    made \o <<Call(MutatingOp(action), IF mutOk THEN "ok" ELSE "raised"), Notify(f)>>

ExceptionErrorLog(a) == [server |-> a, instanceId |-> a, error |-> "exception"]

\* The except block of check(), lines 431-438, entered with the calls made so
\* far: the error record goes through send_notification, whose own exception
\* leaves check().
CheckExcept(a, made) ==
    \E ok \in SUBSET notification_config.enabled :
      LET f == send_notification(ExceptionErrorLog(a), notification_config, ok)
      IN  /\ calls' = [calls EXCEPT ![a] = Append(made, Notify(f))]
          /\ fanout' = f
          /\ logs' = logs
          /\ IF f.ret = "raise"
             THEN pc' = "crashed" /\ UNCHANGED idx
             ELSE pc' = "check" /\ idx' = idx + 1

\* logs.append(log) at line 430 and the next iteration.
CheckAppend(a, made, f, log) ==
    /\ calls' = [calls EXCEPT ![a] = made]
    /\ fanout' = f
    /\ logs' = Append(logs, log)
    /\ pc' = "check"
    /\ idx' = idx + 1

Summary(a, usage, is_enabled, action, after, mutOk) ==
    [run |-> run, usage |-> usage, observed |-> is_enabled, action |-> action,
     after |-> after,
     clean |-> (is_enabled = rule[a]) /\ (action = "None" \/ mutOk),
     repeat |-> /\ last[a].run > 0
                /\ last[a].run = run - 1
                /\ last[a].usage = usage
                /\ last[a].after = is_enabled,
     prevClean |-> last[a].clean,
     prevAction |-> last[a].action]

\* The try block of check(), lines 382-430, with its except block, for the
\* account at idx.
CheckTry ==
    /\ pc = "try"
    /\ \E tq \in TrafficQueryOutcomes :
         LET a == idx
             acct == accounts[a]
             traffic == get_traffic(tq)
             c1 == Append(calls[a],
                          Call("ListCdtInternetTraffic", IF tq.ok THEN "ok" ELSE "raised"))
         IN  IF ~acct.hasMaxTraffic \/ acct.maxTraffic = 0
             THEN \* KeyError or ZeroDivisionError at line 385
                  /\ CheckExcept(a, c1)
                  /\ UNCHANGED <<rule, last>>
             ELSE \E sgOk \in BOOLEAN, queryOk \in BOOLEAN :
                    LET usage == usage_percentage(traffic, acct.maxTraffic)
                        is_enabled == is_security_group_rule_enabled(sgOk, queryOk, rule[a])
                        action == reconcile(usage, is_enabled)
                        c2 == c1 \o <<Call("DescribeInstanceAttribute", "-"),
                                      Call("DescribeInstances", "-"),
                                      Call("DescribeSecurityGroupAttribute", "-")>>
                    IN  IF action = "None"
                        THEN /\ CheckAppend(a, c2, NoFanout,
                                            ResultLog(a, usage, is_enabled, "not_needed"))
                             /\ last' = [last EXCEPT ![a] =
                                            Summary(a, usage, is_enabled, action, rule[a], TRUE)]
                             /\ UNCHANGED rule
                        ELSE \E mutOk \in {sgOk, FALSE}, ok \in SUBSET notification_config.enabled :
                               LET after == IF mutOk THEN (action = "Enable") ELSE rule[a]
                                   log == ResultLog(a, usage, is_enabled, "-")
                                   f == send_notification(log, notification_config, ok)
                                   c4 == MutateAndNotify(c2, action, mutOk, f)
                               IN  /\ rule' = [rule EXCEPT ![a] = after]
                                   /\ last' = [last EXCEPT ![a] =
                                                  Summary(a, usage, is_enabled, action, after, mutOk)]
                                   /\ IF f.ret = "raise"
                                      THEN CheckExcept(a, c4)
                                      ELSE CheckAppend(a, c4, f,
                                               [log EXCEPT !.notified = NotifiedText(f.ret)])
    /\ UNCHANGED <<accounts, notification_config, job, run, file, writes, digest>>

\* write_log(logs) at line 440, after the loop: data.json is overwritten.
CheckWriteLog ==
    /\ pc = "check"
    /\ idx > N
    /\ file' = <<logs>>
    /\ writes' = writes + 1
    /\ pc' = "idle"
    /\ fanout' = NoFanout
    /\ UNCHANGED <<accounts, notification_config, job, rule, idx, run, logs, calls, last,
                   digest>>

\* ------------------------------------------- send_daily_notification()
\* send_daily_notification_message: the same dispatch as send_notification,
\* returning False instead of the failure string.
send_daily_notification_message(cfg, ok) ==
    LET d == Dispatch(Channels, cfg, ok, [attempted |-> <<>>, results |-> <<>>, raised |-> FALSE])
    IN  [template  |-> "digest",
         enabled   |-> cfg.enabled,
         attempted |-> d.attempted,
         results   |-> d.results,
         ret       |-> IF d.raised THEN "raise"
                       ELSE IF Aggregate(d.results) = "True" THEN "True" ELSE "False",
         embedded  |-> <<>>]

\* send_daily_notification(), lines 63-65.
StartDigest ==
    /\ pc \in {"idle", "crashed"}
    /\ (run + 1) * N <= MaxIterations
    /\ job' = "digest"
    /\ pc' = "digest"
    /\ idx' = 1
    /\ run' = run + 1
    /\ calls' = [a \in 1..N |-> <<>>]
    /\ fanout' = NoFanout
    /\ digest' = [a \in 1..N |-> NoDigest]
    /\ UNCHANGED <<accounts, notification_config, rule, logs, file, writes, last>>

\* account.get('enableNotification', True) is falsy / account.get('onlyNotifyOnToggle', False) is truthy.
OptedOut(acct) ==
    acct.enableNotification = "false" \/ acct.onlyNotifyOnToggle = "true"

\* Lines 68-80 for the account at idx: the two opt-outs, whose print reads
\* account['accountName'] outside any try block, then the validation gate.
DigestGate ==
    /\ pc = "digest"
    /\ idx <= N
    /\ IF OptedOut(accounts[idx])
       THEN /\ IF accounts[idx].hasName
               THEN pc' = "digest" /\ idx' = idx + 1
               ELSE pc' = "crashed" /\ UNCHANGED idx
            /\ fanout' = NoFanout
            /\ UNCHANGED calls
       ELSE \E outcome \in {"ok", "absent", "raises"} :
              IF validate_credentials_and_instance(outcome)
              THEN /\ calls' = [calls EXCEPT ![idx] = Append(@, Call("DescribeInstances", outcome))]
                   /\ pc' = "digest_try"
                   /\ fanout' = NoFanout
                   /\ UNCHANGED idx
              ELSE \E ok \in SUBSET notification_config.enabled :
                     LET f == send_notification(ValidationErrorLog(idx), notification_config, ok)
                     IN  /\ calls' = [calls EXCEPT ![idx] =
                                         @ \o <<Call("DescribeInstances", outcome), Notify(f)>>]
                         /\ fanout' = f
                         /\ IF f.ret = "raise"
                            THEN pc' = "crashed" /\ UNCHANGED idx
                            ELSE pc' = "digest" /\ idx' = idx + 1
    /\ UNCHANGED <<accounts, notification_config, job, rule, run, logs, file, writes, last, digest>>

\* The progress bar of lines 101-117: progress_val = round(usage_percentage),
\* then the number of filled cells out of progress_all_num, for a usage in
\* hundredths of a percent.
progress_all_num == 20
NearlyFull == 95
progress_val(usage) == RoundHalfEven(usage, Cents)

Min(x, y) == IF x <= y THEN x ELSE y

progress_do_num(usage) ==
    IF usage > 0 /\ usage < 1 * Cents THEN 1
    ELSE IF progress_val(usage) = 0 THEN 0
    ELSE IF progress_val(usage) > NearlyFull /\ usage < 100 * Cents
         THEN progress_all_num - 1
         ELSE Min(progress_all_num,
                  RoundHalfEven(50 + progress_all_num * progress_val(usage), 100))

\* The bar of line 117: a string repeated a negative number of times is empty.
progress_bar(usage) ==
    LET do == progress_do_num(usage)
        undo == progress_all_num - do
    IN  [rendered |-> TRUE, usage |-> usage, filled |-> IF do < 0 THEN 0 ELSE do,
         empty |-> IF undo < 0 THEN 0 ELSE undo]

\* The try block of lines 82-138 for the account at idx; its except block
\* only prints.
DigestTry ==
    /\ pc = "digest_try"
    /\ \E tq \in TrafficQueryOutcomes :
         LET a == idx
             acct == accounts[a]
             traffic == get_traffic(tq)
             c1 == Append(calls[a],
                          Call("ListCdtInternetTraffic", IF tq.ok THEN "ok" ELSE "raised"))
         IN  IF ~acct.hasMaxTraffic \/ acct.maxTraffic = 0
             THEN \* KeyError or ZeroDivisionError at line 84
                  /\ calls' = [calls EXCEPT ![a] = c1]
                  /\ fanout' = NoFanout
                  /\ UNCHANGED digest
             ELSE \E sgOk \in BOOLEAN, queryOk \in BOOLEAN :
                    LET usage == usage_percentage(traffic, acct.maxTraffic)
                        is_enabled == is_security_group_rule_enabled(sgOk, queryOk, rule[a])
                        c2 == c1 \o <<Call("DescribeInstances", "-"),
                                      Call("DescribeInstanceAttribute", "-"),
                                      Call("DescribeSecurityGroupAttribute",
                                           IF is_enabled THEN "enabled" ELSE "disabled")>>
                    IN  IF ~is_enabled
                        THEN \* continue at line 99
                             /\ calls' = [calls EXCEPT ![a] = c2]
                             /\ fanout' = NoFanout
                             /\ UNCHANGED digest
                        ELSE /\ digest' = [digest EXCEPT ![a] = progress_bar(usage)]
                             /\ IF ~acct.hasName
                                THEN \* KeyError at line 125
                                     /\ calls' = [calls EXCEPT ![a] = c2]
                                     /\ fanout' = NoFanout
                                ELSE \E ok \in SUBSET notification_config.enabled :
                                       LET f == send_daily_notification_message(
                                                    notification_config, ok)
                                       IN  /\ calls' = [calls EXCEPT ![a] = Append(c2, Notify(f))]
                                           /\ fanout' = f
    /\ pc' = "digest"
    /\ idx' = idx + 1
    /\ UNCHANGED <<accounts, notification_config, job, rule, run, logs, file, writes, last>>

\* The loop of send_daily_notification() ends: the job returns.
DigestEnd ==
    /\ pc = "digest"
    /\ idx > N
    /\ pc' = "idle"
    /\ fanout' = NoFanout
    /\ UNCHANGED <<accounts, notification_config, job, rule, idx, run, logs, file, writes,
                   calls, last, digest>>

Next ==
    \/ StartCheck
    \/ CheckValidate
    \/ CheckTry
    \/ CheckWriteLog
    \/ StartDigest
    \/ DigestGate
    \/ DigestTry
    \/ DigestEnd

Spec == Init /\ [][Next]_vars

\* ------------------------------------------------------------ properties
Count(a, op) == Cardinality({k \in 1..Len(calls[a]) : calls[a][k].op = op})
Revokes(a) == Count(a, "RevokeSecurityGroup")
Authorizes(a) == Count(a, "AuthorizeSecurityGroup")
MutatingCalls(a) == Revokes(a) + Authorizes(a)
ToggleNotifications(a) == Count(a, "notify_toggle")
ErrorNotifications(a) == Count(a, "notify_error")
DigestNotifications(a) == Count(a, "notify_digest")

\* The account went through lines 406-428 of check() in the current run.
Reconciled(a) == job = "check" /\ last[a].run = run

\* DescribeInstances of the validation gate raised or did not list the instance.
ValidationFailed(a) ==
    /\ calls[a] # <<>>
    /\ calls[a][1].op = "DescribeInstances"
    /\ calls[a][1].res \in {"absent", "raises"}

MutatingCallRaised(a) ==
    \E k \in 1..Len(calls[a]) :
        /\ calls[a][k].op \in {"RevokeSecurityGroup", "AuthorizeSecurityGroup"}
        /\ calls[a][k].res = "raised"

\* C1: in a check run an account that reached the reconcile step is revoked
\* iff its usage is >= 95% and the rule was observed enabled, authorized iff
\* its usage is < 95% and the rule was observed disabled; an account that did
\* not reach the step gets no mutating call.
C1_ActionFollowsUsageAndObservedState ==
    job = "check" =>
        \A a \in 1..N :
            IF Reconciled(a)
            THEN /\ (Revokes(a) > 0) <=> (last[a].usage >= 95 * 100 /\ last[a].observed)
                 /\ (Authorizes(a) > 0) <=> (last[a].usage < 95 * 100 /\ ~last[a].observed)
            ELSE MutatingCalls(a) = 0

C1_Witness ==
    \E a \in 1..N :
        /\ Reconciled(a)
        /\ last[a].usage = 95 * 100
        /\ last[a].observed
        /\ Revokes(a) = 1

\* C2: per account and run at most one mutating call is issued, and the toggle
\* record is handed to the notification fanout exactly when a mutating call
\* was issued; at 96% with the rule observed enabled that is one revoke and
\* one toggle notification.
C2_OneMutationOneToggleNotification ==
    \A a \in 1..N :
        /\ MutatingCalls(a) <= 1
        /\ ToggleNotifications(a) = MutatingCalls(a)
        /\ (Reconciled(a) /\ last[a].usage = 96 * 100 /\ last[a].observed)
               => (Revokes(a) = 1 /\ ToggleNotifications(a) = 1)
        /\ (Reconciled(a) /\ last[a].action = "None")
               => (MutatingCalls(a) = 0 /\ ToggleNotifications(a) = 0)

C2_Witness ==
    \E a \in 1..N :
        /\ Reconciled(a)
        /\ last[a].usage = 96 * 100
        /\ last[a].observed
        /\ Revokes(a) = 1
        /\ ToggleNotifications(a) = 1

C4_ValidationGate ==
    job = "check" =>
        \A a \in 1..N :
            /\ ValidationFailed(a) =>
                   /\ Len(calls[a]) = 2
                   /\ calls[a][2].op = "notify_error"
                   /\ (pc = "crashed" \/ idx > a)
            /\ MutatingCalls(a) > 0 => calls[a][1] = Call("DescribeInstances", "ok")

C4_Witness ==
    \E a \in 1..N :
        /\ job = "check"
        /\ ValidationFailed(a)
        /\ calls[a][1].res = "absent"
        /\ idx > a

\* C5: send_notification attempts every enabled channel exactly once, in
\* order, and no disabled channel, whichever channels fail.
C5_EveryEnabledChannelAttempted ==
    fanout.template \in {"error", "toggle"} =>
        /\ {fanout.attempted[k] : k \in 1..Len(fanout.attempted)} = fanout.enabled
        /\ Len(fanout.attempted) = Cardinality(fanout.enabled)

\* C6: send_notification returns True iff every attempted channel succeeded,
\* otherwise the failure value with the outcome of every enabled channel; and
\* check() records the notification as a success exactly when it returned True.
C6_AggregateResult ==
    (fanout.template \in {"error", "toggle"} /\ fanout.ret # "raise") =>
        /\ (fanout.ret = "True") <=>
               (\A k \in 1..Len(fanout.results) : fanout.results[k] = "True")
        /\ fanout.ret # "True" =>
               /\ fanout.ret = "failed"
               /\ fanout.embedded = fanout.results
               /\ Len(fanout.embedded) = Cardinality(fanout.enabled)
        /\ fanout.template = "toggle" =>
               /\ logs # <<>>
               /\ (logs[Len(logs)].notified = "success") <=> (fanout.ret = "True")

C6_Witness ==
    /\ fanout.template = "toggle"
    /\ fanout.ret = "failed"
    /\ \E k \in 1..Len(fanout.results) : fanout.results[k] = "True"
    /\ logs # <<>>
    /\ logs[Len(logs)].notified = "failed"

\* C7: no error ends a check run early: the run never stops inside the loop,
\* and when it has ended every account was reached and the log was written
\* exactly once.
C7_NoErrorIsFatal ==
    job = "check" =>
        /\ pc # "crashed"
        /\ pc = "idle" => (writes = 1 /\ \A a \in 1..N : calls[a] # <<>>)

\* C8: a mutating call that raised is reported by an error notification and
\* never by a toggle notification.
C8_FailedMutationReportedAsError ==
    \A a \in 1..N :
        MutatingCallRaised(a) => (ToggleNotifications(a) = 0 /\ ErrorNotifications(a) >= 1)

\* C9: the log written by a check run holds, in account order, one record
\* per account: a result record for an account that completed, an error record
\* for one that failed validation or raised.
C9_LogHoldsOneRecordPerAccount ==
    (job = "check" /\ pc = "idle") =>
        /\ writes = 1
        /\ file = <<logs>>
        /\ Len(logs) = N
        /\ \A k \in 1..Len(logs) :
               /\ logs[k].instanceId = k
               /\ ("error" \in DOMAIN logs[k]) <=> (ErrorNotifications(k) > 0)

\* C10: in a digest run every account is processed, and the digest is sent for
\* an account iff it has not opted out, passed validation, its usage was
\* computed and its rule was observed enabled.
C10_DigestGating ==
    job = "digest" =>
        /\ pc # "crashed"
        /\ \A a \in 1..N :
               (a < idx \/ pc = "idle") =>
                   ((DigestNotifications(a) = 1) <=>
                        /\ accounts[a].enableNotification # "false"
                        /\ accounts[a].onlyNotifyOnToggle # "true"
                        /\ calls[a] # <<>>
                        /\ calls[a][1] = Call("DescribeInstances", "ok")
                        /\ accounts[a].hasMaxTraffic
                        /\ accounts[a].maxTraffic # 0
                        /\ \E k \in 1..Len(calls[a]) :
                               calls[a][k] = Call("DescribeSecurityGroupAttribute", "enabled"))

\* The traffic query of the account raised in the current check run.
TrafficFailed(a) ==
    /\ job = "check"
    /\ \E k \in 1..Len(calls[a]) : calls[a][k] = Call("ListCdtInternetTraffic", "raised")

\* C11: a validated account with a usable quota whose traffic query raised in
\* a check run goes on to the reconcile step with a usage of 0%, the query's
\* failure itself sending no error notification (the call after it is the next
\* query, and an error record is only ever sent by the except block after the
\* toggle notification raised, as for a genuine zero usage); its log record
\* says the usage did not reach 95%, no revoke call is issued, and the
\* authorize call and the toggle notification are issued exactly when the
\* rule is observed disabled.
C11_TrafficFailureActsAsZeroUsage ==
    \A a \in 1..N :
        (TrafficFailed(a) /\ accounts[a].hasMaxTraffic /\ accounts[a].maxTraffic # 0) =>
            /\ Reconciled(a)
            /\ last[a].usage = 0
            /\ \A k \in 1..Len(calls[a]) :
                   calls[a][k].op = "ListCdtInternetTraffic" =>
                       (k < Len(calls[a]) /\ calls[a][k + 1].op = "DescribeInstanceAttribute")
            /\ ErrorNotifications(a) > 0 =>
                   \E k \in 1..Len(calls[a]) : calls[a][k] = Call("notify_toggle", "raise")
            /\ \A k \in 1..Len(logs) :
                   logs[k].instanceId = a => (logs[k].over95 = "no" /\ logs[k].usage = 0)
            /\ Revokes(a) = 0
            /\ (Authorizes(a) = 1) <=> ~last[a].observed
            /\ (ToggleNotifications(a) = 1) <=> ~last[a].observed
            /\ MutatingCalls(a) <= 1

C11_Witness ==
    \E a \in 1..N :
        /\ TrafficFailed(a)
        /\ Reconciled(a)
        /\ ~last[a].observed
        /\ Authorizes(a) = 1
        /\ ToggleNotifications(a) = 1
        /\ \E k \in 1..Len(logs) :
               logs[k].instanceId = a /\ logs[k].over95 = "no" /\ logs[k].status = "restored"

\* C12: the bar of a digest has 0 filled cells at 0%, at least 1 above 0%, at
\* most 19 below 100%, 20 at 100%, and its filled and empty cells total 20.
C12_BarNeverFullBefore100 ==
    \A a \in 1..N :
        digest[a].rendered =>
            /\ digest[a].usage = 0 => digest[a].filled = 0
            /\ digest[a].usage > 0 => digest[a].filled >= 1
            /\ digest[a].usage < 100 * 100 => digest[a].filled <= 20 - 1
            /\ digest[a].usage = 100 * 100 => digest[a].filled = 20
            /\ digest[a].filled + digest[a].empty = 20

====
